---- MODULE Spec2Model ----
(***************************************************************************)
(* swaywsr (src/src/lib.rs): workspace names kept in step with the windows *)
(* of each workspace.                                                      *)
(*                                                                         *)
(* Strings are sequences of one-character strings, so that splitting,      *)
(* joining and formatting are computed character by character.  An         *)
(* Option<T> is a sequence of length 0 (None) or 1 (Some(v)).  A Map is a  *)
(* function whose DOMAIN is the set of keys present.                       *)
(***************************************************************************)
EXTENDS Naturals, Sequences, FiniteSets, TLC

VARIABLES
    tree,      \* the Node in hand: sway's scene tree (Spec), or the node a function is applied to
    config,    \* the Config handed to every entry point
    out,       \* what the last operation returned
    sent,      \* the commands the last operation sent with run_command, in order
    event,     \* the event handled last, None before the first
    fetched,   \* the number of get_tree calls the last operation made
    runs,      \* the number of updates run since sway last changed the tree by itself, 2 for more
    tree0,     \* the tree as it was initially
    snapshot   \* the tree the last get_tree returned, None before the first

vars == <<tree, config, out, sent, event, fetched, runs, tree0, snapshot>>

---------------------------------------------------------------------------
(* Option and Map *)

None == <<>>
Some(v) == <<v>>
IsSome(o) == Len(o) = 1
IsNone(o) == Len(o) = 0
Unwrap(o) == o[1]
Option(S) == {None} \cup {Some(v) : v \in S}

EmptyMap == <<>>

\* s[a..b], empty when b < a
Slice(s, a, b) == IF b < a THEN <<>> ELSE [i \in 1..(b - a + 1) |-> s[a + i - 1]]

---------------------------------------------------------------------------
(* Node: the fields of swayipc::Node that lib.rs reads *)

Node(id, name, node_type, app_id, window_properties, window, focused, visible, nodes, floating_nodes) ==
    [id |-> id, name |-> name, node_type |-> node_type, app_id |-> app_id,
     window_properties |-> window_properties, window |-> window,
     focused |-> focused, visible |-> visible,
     nodes |-> nodes, floating_nodes |-> floating_nodes]

(* Config: the four maps *)
Config(icons, aliases, general, options) ==
    [icons |-> icons, aliases |-> aliases, general |-> general, options |-> options]

ConfigDefault == Config(EmptyMap, EmptyMap, EmptyMap, EmptyMap)

get_option(cfg, key) ==
    IF key \in DOMAIN cfg.options THEN cfg.options[key] ELSE FALSE

---------------------------------------------------------------------------
(* get_class *)

Ok(v) == [kind |-> "Ok", val |-> v]
Err(e) == [kind |-> "Err", err |-> e]
Panic == [kind |-> "Panic"]

\* lines 60-68: the raw class key; the unwrap of an absent class panics
class_name(node) ==
    IF IsSome(node.app_id) THEN Ok(Some(Unwrap(node.app_id)))
    ELSE IF IsSome(node.window_properties)
         THEN IF IsSome(Unwrap(node.window_properties).class)
              THEN Ok(Some(Unwrap(Unwrap(node.window_properties).class)))
              ELSE Panic
         ELSE Ok(None)

\* format!("{}", icon) and format!("{} {}", icon, name); icon is already a string
format_icon(icon) == icon
format_icon_name(icon, name) == icon \o <<" ">> \o name

\* lines 70-73
class_display_name(class, cfg) ==
    IF class \in DOMAIN cfg.aliases THEN cfg.aliases[class] ELSE class

\* get_class_format looking the icon up under the display name instead of the class
get_class_format_icon_by_alias(class, cfg) ==
    LET name == class_display_name(class, cfg)
        no_names == get_option(cfg, "no_names")
    IN  IF name \in DOMAIN cfg.icons
        THEN IF no_names THEN format_icon(<<cfg.icons[name]>>)
                         ELSE format_icon_name(<<cfg.icons[name]>>, name)
        ELSE IF "default_icon" \in DOMAIN cfg.general
             THEN IF no_names THEN format_icon(cfg.general["default_icon"])
                              ELSE format_icon_name(cfg.general["default_icon"], name)
             ELSE name

\* lines 77-97
get_class_format(class, cfg) ==
    LET name == class_display_name(class, cfg)
        no_names == get_option(cfg, "no_names")
    IN  IF class \in DOMAIN cfg.icons
        THEN IF no_names THEN format_icon(<<cfg.icons[class]>>)
                         ELSE format_icon_name(<<cfg.icons[class]>>, name)
        ELSE IF "default_icon" \in DOMAIN cfg.general
             THEN IF no_names THEN format_icon(cfg.general["default_icon"])
                              ELSE format_icon_name(cfg.general["default_icon"], name)
             ELSE name

get_class(node, cfg) ==
    LET name == class_name(node)
    IN  IF name.kind = "Panic" THEN Panic
        ELSE IF IsSome(name.val) THEN Ok(get_class_format(Unwrap(name.val), cfg))
        ELSE Err("MissingInformation")

---------------------------------------------------------------------------
(* get_workspaces, get_window_nodes, get_classes *)

RECURSIVE Flatten(_)
Flatten(lists) ==
    IF lists = <<>> THEN <<>> ELSE Head(lists) \o Flatten(Tail(lists))

IsWorkspace(n) == n.node_type = "Workspace"

\* lines 104-116: the workspace-typed children of the root's children, in order
get_workspaces(root) ==
    Flatten([i \in 1..Len(root.nodes) |-> SelectSeq(root.nodes[i].nodes, IsWorkspace)])

\* lines 125-129
IsWindowNode(n) == IsSome(n.window) \/ IsSome(n.app_id)

\* lines 122-124: one turn of the while loop pops the last list of the stack and
\* visits its nodes in order, pushing the child list of each; the nodes in the
\* order the loop visits them
RECURSIVE visit_order(_)
visit_order(stack) ==
    IF stack = <<>> THEN <<>>
    ELSE LET next == stack[Len(stack)]
             rest == Slice(stack, 1, Len(stack) - 1)
             pushed == [i \in 1..Len(next) |-> next[i].nodes]
         IN  next \o visit_order(rest \o pushed)

\* lines 119-134: a visited node is collected when it has a window or an app_id
get_window_nodes(stack) == SelectSeq(visit_order(stack), IsWindowNode)

\* lines 138-143: regular children first, floating children appended
window_nodes(workspace) ==
    LET f == get_window_nodes(<<workspace.floating_nodes>>)
        n == get_window_nodes(<<workspace.nodes>>)
    IN  n \o f

\* lines 148-164: the loop over the window nodes; unwrap of an absent visible panics
RECURSIVE classes_loop(_, _, _)
classes_loop(wins, cfg, window_classes) ==
    IF wins = <<>> THEN Ok(window_classes)
    ELSE LET node == Head(wins)
             focused_only == get_option(cfg, "focused_only")
         IN  IF IsNone(node.visible) THEN Panic
             ELSE IF focused_only /\ Unwrap(node.visible) /\ ~node.focused
                  THEN classes_loop(Tail(wins), cfg, window_classes)
             ELSE LET class == get_class(node, cfg)
                  IN  IF class.kind = "Panic" THEN Panic
                      ELSE IF class.kind = "Err"
                           THEN classes_loop(Tail(wins), cfg, window_classes)
                      ELSE classes_loop(Tail(wins), cfg, Append(window_classes, class.val))

get_classes(workspace, cfg) == classes_loop(window_nodes(workspace), cfg, <<>>)

---------------------------------------------------------------------------
(* update_tree *)

\* line 180, itertools unique(): an element passes when it has not been seen before
RECURSIVE unique_from(_, _)
unique_from(v, seen) ==
    IF v = <<>> THEN <<>>
    ELSE IF Head(v) \in seen THEN unique_from(Tail(v), seen)
    ELSE <<Head(v)>> \o unique_from(Tail(v), seen \cup {Head(v)})

unique(v) == unique_from(v, {})

\* [String]::join
RECURSIVE join(_, _)
join(v, sep) ==
    IF v = <<>> THEN <<>>
    ELSE IF Len(v) = 1 THEN v[1]
    ELSE v[1] \o sep \o join(Tail(v), sep)

\* first_token with the split forgotten: the whole old name is kept
first_token_whole(s) == s

\* first_token taking the last piece of the split instead of the first
first_token_last(s) ==
    LET sp == {i \in 1..Len(s) : s[i] = " "}
    IN  IF sp = {} THEN s
        ELSE [i \in 1..(Len(s) - (CHOOSE x \in sp : \A y \in sp : x >= y)) |->
                 s[(CHOOSE x \in sp : \A y \in sp : x >= y) + i]]

\* line 197: old.split(' ').next().unwrap(), the text before the first space
RECURSIVE first_token(_)
first_token(s) ==
    IF s = <<>> THEN <<>>
    ELSE IF Head(s) = " " THEN <<>>
    ELSE <<Head(s)>> \o first_token(Tail(s))

DefaultSeparator == <<" ", "|", " ">>

\* lines 173-176
separator(cfg) ==
    IF "separator" \in DOMAIN cfg.general THEN cfg.general["separator"]
    ELSE DefaultSeparator

\* lines 179-190: the suffix appended to the index token
suffix(classes, cfg) ==
    LET c1 == IF get_option(cfg, "remove_duplicates") THEN unique(classes) ELSE classes
        c2 == join(c1, separator(cfg))
    IN  IF c2 # <<>> THEN <<" ">> \o c2 ELSE c2

\* lines 197-201
new_name(old, classes) ==
    LET new == first_token(old)
    IN  IF classes # <<>> THEN new \o classes ELSE new

\* line 204: format!("rename workspace \"{}\" to \"{}\"", old, new)
rename_command(old, new) ==
    <<"rename workspace ", "\"">> \o old \o <<"\"", " to ", "\"">> \o new \o <<"\"">>

\* lines 172-207: the loop over the workspaces; `?` at line 195 returns from
\* update_tree, a panic in get_classes unwinds out of it
RECURSIVE update_loop(_, _, _)
update_loop(workspaces, cfg, cmds) ==
    IF workspaces = <<>> THEN [ret |-> "Ok", sent |-> cmds]
    ELSE LET workspace == Head(workspaces)
             classes == get_classes(workspace, cfg)
         IN  IF classes.kind = "Panic" THEN [ret |-> "Panic", sent |-> cmds]
             ELSE IF IsNone(workspace.name) THEN [ret |-> "WorkspaceName", sent |-> cmds]
             ELSE LET old == Unwrap(workspace.name)
                      new == new_name(old, suffix(classes.val, cfg))
                  IN  update_loop(Tail(workspaces), cfg,
                                  IF old # new THEN Append(cmds, rename_command(old, new))
                                  ELSE cmds)

\* lines 170-209, on the tree that get_tree returned
update_tree(root, cfg) ==
    LET r == update_loop(get_workspaces(root), cfg, <<>>)
    IN  [ret |-> r.ret, sent |-> r.sent, fetches |-> 1]

---------------------------------------------------------------------------
(* Event dispatch *)

WindowChange ==
    {"New", "Close", "Focus", "Title", "FullscreenMode", "Move", "Floating", "Urgent", "Mark"}
WorkspaceChange ==
    {"Init", "Empty", "Focus", "Move", "Rename", "Urgent", "Reload"}

NoUpdate == [ret |-> "Ok", sent |-> <<>>, fetches |-> 0]

\* handle_window_event with Move left out of the match
handle_window_event_no_move(change, root, cfg) ==
    IF change \in {"New", "Close", "Focus"} THEN update_tree(root, cfg)
    ELSE NoUpdate

\* lines 211-222
handle_window_event(change, root, cfg) ==
    IF change \in {"New", "Close", "Move", "Focus"} THEN update_tree(root, cfg)
    ELSE NoUpdate

\* lines 224-233
handle_workspace_event(change, root, cfg) ==
    IF change \in {"Empty", "Focus"} THEN update_tree(root, cfg)
    ELSE NoUpdate

---------------------------------------------------------------------------
(* sway: the tree behind get_tree, and run_command *)

MinOf(S) == CHOOSE x \in S : \A y \in S : x <= y
MaxOf(S) == CHOOSE x \in S : \A y \in S : x >= y

\* the index prefix of a workspace name: the text before its first space
LeadingToken(s) ==
    LET sp == {i \in 1..Len(s) : s[i] = " "}
    IN  IF sp = {} THEN s ELSE Slice(s, 1, MinOf(sp) - 1)

\* the old and new names quoted in a rename command
parse_rename(cmd) ==
    LET q == {i \in 1..Len(cmd) : cmd[i] = "\""}
        q1 == MinOf(q)
        q2 == MinOf(q \ {q1})
        q4 == MaxOf(q)
        q3 == MaxOf(q \ {q4})
    IN  [old |-> Slice(cmd, q1 + 1, q2 - 1), new |-> Slice(cmd, q3 + 1, q4 - 1)]

\* sway renames the workspace called old to new
sway_rename(root, old, new) ==
    [root EXCEPT !.nodes =
        [o \in 1..Len(root.nodes) |->
            [root.nodes[o] EXCEPT !.nodes =
                [c \in 1..Len(root.nodes[o].nodes) |->
                    LET n == root.nodes[o].nodes[c]
                    IN  IF IsWorkspace(n) /\ n.name = Some(old)
                        THEN [n EXCEPT !.name = Some(new)] ELSE n]]]]

\* run_command, for each command sent, in order
RECURSIVE run_commands(_, _)
run_commands(root, cmds) ==
    IF cmds = <<>> THEN root
    ELSE LET p == parse_rename(Head(cmds))
         IN  run_commands(sway_rename(root, p.old, p.new), Tail(cmds))

RemoveAt(s, j) == Slice(s, 1, j - 1) \o Slice(s, j + 1, Len(s))

\* sway closes the j-th top-level window of the c-th child of output o
sway_close(root, o, c, j) ==
    [root EXCEPT !.nodes[o].nodes[c].nodes = RemoveAt(@, j)]

---------------------------------------------------------------------------
(* Bounds and the trees and configurations drawn initially *)

MaxNodes == 4          \* workspaces and windows in the tree, together

NameChars == {"1", " "}
Apps == {<<"A">>, <<"B">>}

\* the names a workspace may have initially: none, or one character
InitNames == Option({<<ch>> : ch \in NameChars})

SeqsUpTo(S, n) == UNION {[1..k -> S] : k \in 0..n}

OutputId(o) == 1 + o
WorkspaceId(i) == 10 * i
WindowId(i, j) == 10 * i + j

Window(id, app) ==
    Node(id, None, "Con", Some(app), None, None, FALSE, Some(TRUE), <<>>, <<>>)

Workspace(i, name, apps) ==
    Node(WorkspaceId(i), name, "Workspace", None, None, None, FALSE, Some(TRUE),
         [j \in 1..Len(apps) |-> Window(WindowId(i, j), apps[j])], <<>>)

\* a child of an output that is not a workspace (i3's dock area), holding a window
Dockarea ==
    Node(9, Some(<<"9">>), "Dockarea", None, None, None, FALSE, Some(TRUE),
         <<Window(8, <<"A">>)>>, <<>>)

Output(o, children) ==
    Node(OutputId(o), Some(<<"o">>), "Output", None, None, None, FALSE, Some(TRUE), children, <<>>)

Root(outputs) ==
    Node(1, Some(<<"r">>), "Root", None, None, None, FALSE, Some(TRUE), outputs, <<>>)

RECURSIVE SumLen(_)
SumLen(lists) == IF lists = <<>> THEN 0 ELSE Len(Head(lists)) + SumLen(Tail(lists))

\* sway keeps workspace names apart; names that differ in their index token stay
\* apart under every rename update_tree asks for
NamesApart(names) ==
    \A i, j \in 1..Len(names) :
        (i # j /\ IsSome(names[i]) /\ IsSome(names[j]))
            => LeadingToken(Unwrap(names[i])) # LeadingToken(Unwrap(names[j]))

\* two outputs: the first holds a dock area and the first half of the workspaces,
\* the second the other half
InitTree(names, apps) ==
    LET n == Len(names)
        k == (n + 1) \div 2
        ws == [i \in 1..n |-> Workspace(i, names[i], apps[i])]
    IN  Root(<<Output(1, <<Dockarea>> \o Slice(ws, 1, k)), Output(2, Slice(ws, k + 1, n))>>)

InitTrees ==
    {InitTree(na[1], na[2]) :
        na \in {x \in UNION {[1..n -> InitNames] \X [1..n -> SeqsUpTo(Apps, MaxNodes - n)]
                               : n \in 0..MaxNodes} :
                   NamesApart(x[1]) /\ Len(x[1]) + SumLen(x[2]) <= MaxNodes}}

\* the configurations update_tree is run under
UpdateConfigs ==
    {Config(EmptyMap, EmptyMap, general, options) :
        general \in {EmptyMap, [x \in {"separator"} |-> <<"-">>]},
        options \in {EmptyMap, [x \in {"remove_duplicates"} |-> TRUE]}}

---------------------------------------------------------------------------
(* Spec: update_tree called again and again while sway closes windows *)

Init ==
    /\ tree \in InitTrees
    /\ config \in UpdateConfigs
    /\ out = None
    /\ sent = <<>>
    /\ event = None
    /\ fetched = 0
    /\ runs = 0
    /\ tree0 = tree
    /\ snapshot = None

\* a panic ends the process
Alive == out # Some("Panic")

\* what a call that returned r leaves behind: the commands sway ran, the tree fetched
Returned(r) ==
    /\ tree' = run_commands(tree, r.sent)
    /\ out' = Some(r.ret)
    /\ sent' = r.sent
    /\ fetched' = r.fetches
    /\ snapshot' = IF r.fetches > 0 THEN Some(tree) ELSE snapshot
    /\ runs' = IF r.fetches = 0 THEN runs ELSE IF runs < 2 THEN runs + 1 ELSE 2
    /\ UNCHANGED <<config, tree0>>

\* one call of update_tree: get_tree, the loop, the commands sway runs
UpdateTree ==
    /\ Alive
    /\ \E r \in {update_tree(tree, config)} : Returned(r)
    /\ UNCHANGED event

\* sway closes a window
SwayClose ==
    /\ Alive
    /\ \E o \in 1..Len(tree.nodes) :
         \E c \in 1..Len(tree.nodes[o].nodes) :
           \E j \in 1..Len(tree.nodes[o].nodes[c].nodes) :
              tree' = sway_close(tree, o, c, j)
    /\ runs' = 0
    /\ UNCHANGED <<config, out, sent, event, fetched, tree0, snapshot>>

Next == UpdateTree \/ SwayClose

Spec == Init /\ [][Next]_vars

---------------------------------------------------------------------------
(* SpecEvents: the event loop hands every event to its handler *)

InitEvents ==
    /\ tree \in InitTrees
    /\ config = ConfigDefault
    /\ out = None
    /\ sent = <<>>
    /\ event = None
    /\ fetched = 0
    /\ runs = 0
    /\ tree0 = tree
    /\ snapshot = None

HandleWindowEvent ==
    /\ Alive
    /\ \E change \in WindowChange :
         /\ \E r \in {handle_window_event(change, tree, config)} : Returned(r)
         /\ event' = Some(<<"window", change>>)

HandleWorkspaceEvent ==
    /\ Alive
    /\ \E change \in WorkspaceChange :
         /\ \E r \in {handle_workspace_event(change, tree, config)} : Returned(r)
         /\ event' = Some(<<"workspace", change>>)

NextEvents == HandleWindowEvent \/ HandleWorkspaceEvent

SpecEvents == InitEvents /\ [][NextEvents]_vars

---------------------------------------------------------------------------
(* SpecClass: get_class applied to one window node *)

Keys == {<<"A">>, <<"B">>}
IconChars == {"F", "G"}
AliasNames == {<<"B">>, <<"x", "y">>}

\* every map from some of the keys to the values
Maps(keys, values) == UNION {[d -> values] : d \in SUBSET keys}

\* window nodes with every combination of app_id, window_properties and class
ClassNodes ==
    {Node(1, None, "Con", app_id, window_properties, Some(1), FALSE, Some(TRUE), <<>>, <<>>) :
        app_id \in Option(Keys),
        window_properties \in Option({[class |-> class] : class \in Option(Keys)})}

ClassConfigs ==
    {Config(icons, aliases, general, options) :
        icons \in Maps(Keys, IconChars),
        aliases \in Maps(Keys, AliasNames),
        general \in Maps({"default_icon"}, {<<"*">>}),
        options \in Maps({"no_names"}, BOOLEAN)}

\* the variables only Spec and SpecEvents use
Idle ==
    /\ sent = <<>>
    /\ event = None
    /\ fetched = 0
    /\ runs = 0
    /\ tree0 = tree
    /\ snapshot = None

InitClass ==
    /\ tree \in ClassNodes
    /\ config \in ClassConfigs
    /\ out = None
    /\ Idle

GetClass ==
    /\ out = None
    /\ out' = Some(get_class(tree, config))
    /\ UNCHANGED <<tree, config, sent, event, fetched, runs, tree0, snapshot>>

SpecClass == InitClass /\ [][GetClass]_vars

---------------------------------------------------------------------------
(* SpecFilter: get_classes applied to a workspace of sibling windows *)

MaxSiblings == 2       \* nodes in one list of children

\* every combination of the fields the loop of get_classes reads
FilterFields ==
    [app_id : Option(Keys),
     window_properties : Option({[class |-> None]}),
     focused : BOOLEAN,
     visible : Option(BOOLEAN)]

FilterWindow(id, f) ==
    Node(id, None, "Con", f.app_id, f.window_properties, Some(id), f.focused, f.visible,
         <<>>, <<>>)

\* a workspace whose children are the windows with these fields
FilterWorkspace(fields) ==
    Node(10, Some(<<"1">>), "Workspace", None, None, None, FALSE, Some(TRUE),
         [i \in 1..Len(fields) |-> FilterWindow(10 + i, fields[i])], <<>>)

FilterConfigs ==
    {Config(EmptyMap, EmptyMap, EmptyMap, options) : options \in Maps({"focused_only"}, BOOLEAN)}

InitFilter ==
    /\ \E k \in 0..MaxSiblings :
         \E fields \in [1..k -> FilterFields] : tree = FilterWorkspace(fields)
    /\ config \in FilterConfigs
    /\ out = None
    /\ Idle

GetClasses ==
    /\ out = None
    /\ out' = Some(get_classes(tree, config))
    /\ UNCHANGED <<tree, config, sent, event, fetched, runs, tree0, snapshot>>

SpecFilter == InitFilter /\ [][GetClasses]_vars

---------------------------------------------------------------------------
(* SpecWalk: the window nodes get_classes collects from a workspace *)

\* a container, an X11 window (window handle) or a Wayland window (app_id)
WalkNode(id, kind, children) ==
    Node(id, None, "Con",
         IF kind = "wayland" THEN Some(<<"A">>) ELSE None, None,
         IF kind = "x11" THEN Some(id) ELSE None,
         FALSE, Some(TRUE), children, <<>>)

\* WalkTrees(n, id): the nodes with id id that have n nodes in all, themselves
\* included; only containers have children.  WalkLists(n, id, i): the lists of n
\* nodes in all under parent id, the first of the list being its i-th child
RECURSIVE WalkTrees(_, _), WalkLists(_, _, _)
WalkTrees(n, id) ==
    IF n = 1 THEN {WalkNode(id, kind, <<>>) : kind \in {"x11", "wayland", "con"}}
    ELSE {WalkNode(id, "con", children) : children \in WalkLists(n - 1, id, 1)}

WalkLists(n, id, i) ==
    IF n = 0 THEN {<<>>}
    ELSE UNION {{<<t>> \o rest : t \in WalkTrees(k, 10 * id + i),
                                 rest \in WalkLists(n - k, id, i + 1)} : k \in 1..n}

\* the workspaces of at most MaxNodes nodes, the workspace included
WalkWorkspaces ==
    UNION {{Node(1, Some(<<"1">>), "Workspace", None, None, None, FALSE, Some(TRUE), nodes, floating) :
               nodes \in WalkLists(ab[1], 1, 1), floating \in WalkLists(ab[2], 2, 1)} :
           ab \in {x \in (0..MaxNodes) \X (0..MaxNodes) : 1 + x[1] + x[2] <= MaxNodes}}

InitWalk ==
    /\ tree \in WalkWorkspaces
    /\ config = ConfigDefault
    /\ out = None
    /\ Idle

Ids(nodes) == [i \in 1..Len(nodes) |-> nodes[i].id]

WindowNodes ==
    /\ out = None
    /\ out' = Some(Ids(window_nodes(tree)))
    /\ UNCHANGED <<tree, config, sent, event, fetched, runs, tree0, snapshot>>

SpecWalk == InitWalk /\ [][WindowNodes]_vars

---------------------------------------------------------------------------
(* What the specification says of update_tree *)

\* the children of the outputs, in tree order
Level2(root) == Flatten([o \in 1..Len(root.nodes) |-> root.nodes[o].nodes])

HasSpace(s) == \E i \in 1..Len(s) : s[i] = " "

Renamed == \E i \in 1..Len(Level2(tree)) : Level2(tree)[i].name # Level2(tree0)[i].name

\* C1: an update run right after another, sway having changed nothing in between,
\* sends no rename command
C1_SecondRunSendsNothing == runs = 2 => sent = <<>>

\* a second run in a row, on a tree whose names earlier runs have changed
C1_Witness == runs = 2 /\ out = Some("Ok") /\ sent = <<>> /\ Renamed

\* C2: the index prefix of every workspace name is what it was initially, and every
\* rename command asks for the old name's leading token followed by nothing or by a
\* space and a new suffix
C2_IndexPrefixKept ==
    /\ \A i \in 1..Len(Level2(tree0)) :
          LET a == Level2(tree0)[i].name
              b == Level2(tree)[i].name
          IN  /\ IsSome(a) = IsSome(b)
              /\ IsSome(a) => LeadingToken(Unwrap(a)) = LeadingToken(Unwrap(b))
    /\ \A k \in 1..Len(sent) :
          LET p == parse_rename(sent[k])
              t == LeadingToken(p.old)
          IN  /\ LeadingToken(p.new) = t
              /\ Len(p.new) >= Len(t)
              /\ Slice(p.new, 1, Len(t)) = t
              /\ Len(p.new) > Len(t) => p.new[Len(t) + 1] = " "

\* a rename of a name that had a suffix after its index token
C2_Witness ==
    \E k \in 1..Len(sent) :
        LET p == parse_rename(sent[k])
        IN  HasSpace(p.old) /\ LeadingToken(p.old) # <<>> /\ p.new # p.old

\* the display strings joined as section 4.3 says
ClaimFirstOccurrences(v) ==
    LET keep == {i \in 1..Len(v) : \A j \in 1..(i - 1) : v[j] # v[i]}
        F[i \in 0..Len(v)] ==
            IF i = 0 THEN <<>>
            ELSE IF i \in keep THEN Append(F[i - 1], v[i]) ELSE F[i - 1]
    IN  F[Len(v)]

ClaimJoin(v, sep) ==
    Flatten([i \in 1..Len(v) |-> IF i = 1 THEN v[i] ELSE sep \o v[i]])

ClaimSuffix(strings, cfg) ==
    LET kept == IF "remove_duplicates" \in DOMAIN cfg.options /\ cfg.options["remove_duplicates"]
                THEN ClaimFirstOccurrences(strings) ELSE strings
        sep == IF "separator" \in DOMAIN cfg.general THEN cfg.general["separator"]
               ELSE <<" ", "|", " ">>
    IN  IF strings = <<>> THEN <<>> ELSE <<" ">> \o ClaimJoin(kept, sep)

ClaimCommand(old, new) ==
    <<"rename workspace ", "\"">> \o old \o <<"\"", " to ", "\"">> \o new \o <<"\"">>

\* the commands C3 asks for: one for each named workspace whose computed name differs
ClaimCommands(root, cfg) ==
    LET ws == get_workspaces(root)
    IN  Flatten([i \in 1..Len(ws) |->
            IF IsNone(ws[i].name) \/ get_classes(ws[i], cfg).kind # "Ok" THEN <<>>
            ELSE LET old == Unwrap(ws[i].name)
                     new == LeadingToken(old) \o ClaimSuffix(get_classes(ws[i], cfg).val, cfg)
                 IN  IF new # old THEN <<ClaimCommand(old, new)>> ELSE <<>>])

\* C3: for every named workspace of the tree an update fetched, the update sent the
\* command rename workspace "<old>" to "<new>" when the computed name differs from
\* the old one, and nothing otherwise
C3_EveryNamedWorkspaceRenamed ==
    (runs >= 1 /\ IsSome(snapshot)) => sent = ClaimCommands(Unwrap(snapshot), config)

\* C4: an unnamed workspace fails alone: the update still sends the rename of every
\* named workspace whose computed name differs, before and after it
C4_UnnamedWorkspaceFailsAlone ==
    (runs >= 1 /\ IsSome(snapshot)
        /\ \E i \in 1..Len(get_workspaces(Unwrap(snapshot))) :
               IsNone(get_workspaces(Unwrap(snapshot))[i].name))
    => \A i \in 1..Len(get_workspaces(Unwrap(snapshot))) :
          LET w == get_workspaces(Unwrap(snapshot))[i]
          IN  (IsSome(w.name) /\ get_classes(w, config).kind = "Ok"
                 /\ new_name(Unwrap(w.name), suffix(get_classes(w, config).val, config)) # Unwrap(w.name))
              => \E k \in 1..Len(sent) :
                    sent[k] = rename_command(Unwrap(w.name),
                                  new_name(Unwrap(w.name), suffix(get_classes(w, config).val, config)))

\* C9: an event of a kind that triggers runs one full update, get_tree once and then
\* the renames of update_tree; an event of any other kind returns success and neither
\* fetches the tree nor sends a command
C9_OneUpdatePerTrigger ==
    IsSome(event) =>
        LET e == Unwrap(event)
            trigger == \/ e[1] = "window" /\ e[2] \in {"New", "Close", "Move", "Focus"}
                       \/ e[1] = "workspace" /\ e[2] \in {"Empty", "Focus"}
        IN  IF trigger
            THEN /\ fetched = 1
                 /\ IsSome(snapshot)
                 /\ sent = update_tree(Unwrap(snapshot), config).sent
                 /\ out = Some(update_tree(Unwrap(snapshot), config).ret)
                 /\ tree = run_commands(Unwrap(snapshot), sent)
            ELSE /\ fetched = 0
                 /\ sent = <<>>
                 /\ out = Some("Ok")

\* a window moved, the update it triggered renamed a workspace, and then an event
\* that triggers nothing
C9_Witness ==
    /\ event = Some(<<"workspace", "Rename">>)
    /\ fetched = 0
    /\ Renamed

---------------------------------------------------------------------------
(* What the specification says of get_class, get_classes and the walk *)

\* the raw class key: the application identifier, else the window-properties class
RawKey(node) ==
    IF IsSome(node.app_id) THEN node.app_id
    ELSE IF IsSome(node.window_properties) THEN Unwrap(node.window_properties).class
    ELSE None

\* the display string of section 4.1 for raw class key C
ClaimDisplay(C, cfg) ==
    LET label == IF C \in DOMAIN cfg.aliases THEN cfg.aliases[C] ELSE C
        icon == IF C \in DOMAIN cfg.icons THEN Some(<<cfg.icons[C]>>)
                ELSE IF "default_icon" \in DOMAIN cfg.general
                     THEN Some(cfg.general["default_icon"])
                     ELSE None
        no_names == "no_names" \in DOMAIN cfg.options /\ cfg.options["no_names"]
    IN  IF IsNone(icon) THEN label
        ELSE IF no_names THEN Unwrap(icon)
        ELSE Unwrap(icon) \o <<" ">> \o label

\* C8: for a window with raw class key C, get_class returns the icon of C (or the
\* default icon) alone under no_names, the icon, a space and the alias of C (or C)
\* otherwise, and the alias of C (or C) alone when there is no icon
C8_DisplayString ==
    (IsSome(out) /\ IsSome(RawKey(tree)))
        => Unwrap(out) = Ok(ClaimDisplay(Unwrap(RawKey(tree)), config))

\* a class taken from window_properties, aliased to a name that has an icon of its
\* own while the class has none
C8_Witness ==
    /\ IsSome(out)
    /\ IsNone(tree.app_id)
    /\ IsSome(RawKey(tree))
    /\ Unwrap(RawKey(tree)) \in DOMAIN config.aliases
    /\ Unwrap(RawKey(tree)) \notin DOMAIN config.icons
    /\ config.aliases[Unwrap(RawKey(tree))] \in DOMAIN config.icons
    /\ Unwrap(out).kind = "Ok"

NoClass(n) ==
    IsNone(n.app_id)
        /\ (IsNone(n.window_properties) \/ IsNone(Unwrap(n.window_properties).class))
HasClass(n) == ~NoClass(n)
HasVisible(n) == IsSome(n.visible)

\* C5: a window with no application identifier and no resolvable class makes
\* get_class fail with MissingInformation, and get_classes returns what it returns
\* for the workspace without that window
C5_WindowWithoutClassDropped ==
    (IsSome(out) /\ \A i \in 1..Len(tree.nodes) : HasVisible(tree.nodes[i]))
        => /\ \A i \in 1..Len(tree.nodes) :
                NoClass(tree.nodes[i])
                    => get_class(tree.nodes[i], config) = Err("MissingInformation")
           /\ Unwrap(out) = get_classes([tree EXCEPT !.nodes = SelectSeq(@, HasClass)], config)

\* C6: a window without a visible flag is dropped like a window without a class, and
\* get_classes returns what it returns for the workspace without that window
C6_WindowWithoutVisibleDropped ==
    (IsSome(out) /\ \A i \in 1..Len(tree.nodes) :
                       IsSome(RawKey(tree.nodes[i])) \/ IsNone(tree.nodes[i].window_properties))
        => /\ Unwrap(out).kind = "Ok"
           /\ Unwrap(out) = get_classes([tree EXCEPT !.nodes = SelectSeq(@, HasVisible)], config)

\* the filter of section 4.2
ClaimExcluded(n, cfg) ==
    /\ "focused_only" \in DOMAIN cfg.options /\ cfg.options["focused_only"]
    /\ n.visible = Some(TRUE)
    /\ ~n.focused

\* C7: get_classes returns the display strings of the windows the filter does not
\* exclude, every one of them having been passed to get_class
C7_FilterExcludesExactly ==
    IsSome(out)
        => Unwrap(out) =
             Ok(Flatten([i \in 1..Len(tree.nodes) |->
                  IF ClaimExcluded(tree.nodes[i], config) THEN <<>>
                  ELSE IF get_class(tree.nodes[i], config).kind = "Ok"
                       THEN <<get_class(tree.nodes[i], config).val>>
                       ELSE <<>>]))

\* parent before children, children in their listed order
RECURSIVE PreOrder(_)
PreOrder(nodes) ==
    IF nodes = <<>> THEN <<>>
    ELSE <<Head(nodes)>> \o PreOrder(Head(nodes).nodes) \o PreOrder(Tail(nodes))

\* C10: the window nodes of a workspace are collected in pre-order, those under the
\* regular children first and those under the floating children after them
C10_CollectedInPreOrder ==
    IsSome(out)
        => Unwrap(out) = Ids(SelectSeq(PreOrder(tree.nodes), IsWindowNode)
                               \o SelectSeq(PreOrder(tree.floating_nodes), IsWindowNode))

====
